---- MODULE Spec2Model ----
(***************************************************************************)
(* A model of git-manager (src/git_manager/main.py).                      *)
(*                                                                         *)
(*   SpecPrune  RepoManageService.prune: the per-repository branch pruner  *)
(*              (get_active_branch, safe_checkout, branch enumeration,     *)
(*              age test, delete_branch, final summary).                   *)
(*   SpecSync   GitLabService.sync: clone, remote listing, path mapping,   *)
(*              delete candidates, confirmation loop, directory removal,   *)
(*              and a second run of sync on what the first run left.       *)
(*   SpecMain   main(): dependency check, base directory, access token,    *)
(*              the sync / clone / cleanup switches, exit status.          *)
(*                                                                         *)
(* Paths are sequences of path segments; operator input is a sequence of   *)
(* characters, so that strip() and lower() are computed, not assumed.      *)
(***************************************************************************)
EXTENDS Integers, Sequences, FiniteSets, TLC

VARIABLES
    \* ---- prune ----
    now,             \* datetime.now().timestamp(), seconds
    idx,             \* position of `for repository in self.repositories`
    repo,            \* git state of the repository of the current pass, Unopened before
    ppc,             \* position inside prune
    active_branch,   \* prune's local variable
    default_branch,  \* safe_checkout's local variable
    sc_result,       \* what safe_checkout returned for the current repository:
                     \* "True", "False", None while it has not returned
    all_branches,    \* get_branches_with_commit_dates() of the current repository
    k,               \* position in `for branch_to_delete, commit_timestamp in ...`
    deleted,
    not_deleted,
    abnormal_state,
    calls,           \* the git commands issued to the current repository, in order
    summary,         \* what prune printed at the end: <<>> before, then one record
    \* ---- sync ----
    fs,                   \* the checkouts on disk: directories holding a .git directory
    group_dir_exists,     \* self.group_directory.exists()
    remote,               \* the group's projects on GitLab (path_with_namespace)
    spc,                  \* position inside sync
    page,                 \* get_json_response's page counter
    results,              \* get_json_response's accumulated projects
    gitlab_repositories,  \* what get_group_repositories returned
    to_delete,            \* the safety-filtered delete candidates
    typed,                \* the line the operator typed last
    prompts,              \* how many times input() has returned
    del_idx,              \* position in `for directory in to_delete`
    deleted_count,
    failed_deletions,
    removals,             \* the remove_directory calls so far: <<directory, outcome>>
    api_error,            \* a GitLabAPIError was raised inside get_json_response
    fs_start,             \* the checkouts on disk when sync was called
    printed,              \* how sync reported its result: None before, then
                          \* "nothing_to_delete", "cancelled" or "summary"
    previous_run,         \* <<>> in the first run of sync; in the second run, one
                          \* record of how the first run ended
    \* ---- main ----
    args,                 \* the parsed command line and the environment
    mpc,                  \* position inside main
    raised,               \* the exception main's try block was left by, None if none
    exit_status,          \* the status the process exits with
    effects               \* the operations carried out so far that change the disk
                          \* or talk to the network, in order

pvars == <<now, idx, repo, ppc, active_branch, default_branch, sc_result,
           all_branches, k, deleted, not_deleted, abnormal_state, calls, summary>>

svars == <<fs, group_dir_exists, remote, spc, page, results, gitlab_repositories,
           to_delete, typed, prompts, del_idx, deleted_count, failed_deletions,
           removals, api_error, fs_start, printed, previous_run>>

mvars == <<args, mpc, raised, exit_status, effects>>

vars == <<pvars, svars, mvars>>

-----------------------------------------------------------------------------
(* Config, main.py:22-28 *)

PROTECTED_BRANCHES == {"master", "main", "develop"}

DAYS_OLD_THRESHOLD == 0

DEFAULT_BACKUP_COMMIT_MESSAGE == "pruner: auto backup"

\* the divisor of the age computation, main.py:355
SecondsPerDay == 86400

-----------------------------------------------------------------------------
(* Bounds and universes of the model *)

\* a repository holds at most this many local branches when prune opens it
MaxBranches == 2

\* self.repositories: the checkouts find_local_repos returned
RepositoryPaths == <<"repoA", "repoB">>

\* local branch names a repository may hold before prune touches it
BranchUniverse == {"main", "wip", "feature-x"}

\* the clock value of the run
ClockValues == {1762000000}

None == "None"
Unopened == "Unopened"
NoSummary == <<>>

\* committer dates: ten days before the run, and one day after it (a commit made
\* on a machine whose clock runs ahead)
CommitTimes(t) == {t - 10 * SecondsPerDay, t + SecondsPerDay}

\* f"backup-{datetime.now().strftime('%Y%m%d-%H%M%S')}"
BackupBranchName == "backup-ts"

\* refname order, the tie-break of git for-each-ref --sort
RefOrder == <<"backup-ts", "feature-x", "main", "wip">>

RefRank(b) == CHOOSE i \in 1..Len(RefOrder) : RefOrder[i] = b

\* the git states a checkout can be in when prune opens it: its local branches
\* with their committer dates, HEAD (a branch, an unborn branch, or None when
\* detached), the working tree (clean, holding modified tracked files, or
\* holding untracked files only) and the HEAD branch origin advertises
RepoStates(t) ==
    UNION { { [branches    |-> bs,
               ts          |-> tsf,
               head        |-> h,
               head_ts     |-> IF h \in bs THEN tsf[h] ELSE t - 10 * SecondsPerDay,
               worktree    |-> w,
               origin_head |-> o,
               new_commits |-> {}] :
                tsf \in [bs -> CommitTimes(t)],
                h \in BranchUniverse \cup {None},
                w \in {"clean", "modified", "untracked"},
                o \in {"main", "wip", None} } :
            bs \in {s \in SUBSET BranchUniverse : Cardinality(s) <= MaxBranches} }

-----------------------------------------------------------------------------
(* Repository, main.py:130-239 *)

\* Repository.get_active_branch: the branch name, None on a detached HEAD
get_active_branch(g) == g.head

\* HEAD taken to resolve to a commit in every repository
head_is_valid_always(g) == TRUE

\* self.repository.head.is_valid(): HEAD resolves to a commit
head_is_valid(g) == g.head = None \/ g.head \in g.branches

\* is_dirty() without untracked_files=True: untracked files do not count
has_modified_files(g) == g.worktree = "modified"

\* Repository.has_uncommitted_files: is_dirty(untracked_files=True)
has_uncommitted_files(g) == g.worktree # "clean"

\* Repository.get_default_branch_name when `git remote show origin` answers
get_default_branch_name(g) == g.origin_head

\* git checkout -b <backup_branch>: a new branch at HEAD's commit, checked out
git_checkout_b(g, b) ==
    [g EXCEPT !.branches = @ \cup {b},
              !.ts = (b :> g.head_ts) @@ g.ts,
              !.head = b]

\* git add --all; git commit -m <message>: the working tree becomes one new
\* commit on the checked-out branch
git_commit(g, message, t) ==
    [g EXCEPT !.ts = (g.head :> t) @@ g.ts,
              !.head_ts = t,
              !.worktree = "clean",
              !.new_commits = @ \cup {[branch |-> g.head, message |-> message]}]

\* git checkout <default_branch>: an existing local branch, or a new local
\* branch tracking origin/<default_branch>
git_checkout(g, b, remote_ts) ==
    LET bts == IF b \in g.branches THEN g.ts[b] ELSE remote_ts
    IN  [g EXCEPT !.branches = @ \cup {b},
                  !.ts = (b :> bts) @@ g.ts,
                  !.head = b,
                  !.head_ts = bts]

\* repository.delete_head(branch, force=True) succeeding
git_delete_head(g, b) ==
    [g EXCEPT !.branches = @ \ {b},
              !.ts = [x \in DOMAIN g.ts \ {b} |-> g.ts[x]]]

\* git refuses to delete the branch that is checked out
can_delete_head(g, b) == b \in g.branches /\ b # g.head

\* b1 comes before b2 in `git for-each-ref --sort=-committerdate`
RefBefore(g, b1, b2) ==
    \/ g.ts[b1] > g.ts[b2]
    \/ g.ts[b1] = g.ts[b2] /\ RefRank(b1) < RefRank(b2)

RECURSIVE SortedRefs(_, _)
SortedRefs(g, bs) ==
    IF bs = {} THEN <<>>
    ELSE LET first == CHOOSE b \in bs : \A c \in bs \ {b} : RefBefore(g, b, c)
         IN  <<first>> \o SortedRefs(g, bs \ {first})

\* get_branches_with_commit_dates without the loop of main.py:177-178
get_branches_unfiltered(g) ==
    LET branches == SortedRefs(g, g.branches)
    IN  [j \in 1..Len(branches) |-> <<branches[j], g.ts[branches[j]]>>]

\* the dict of Repository.get_branches_with_commit_dates, in insertion order:
\* every local branch, then the protected names popped
get_branches_with_commit_dates(g) ==
    LET branches == SortedRefs(g, g.branches)
        kept == SelectSeq(branches, LAMBDA b : b \notin PROTECTED_BRANCHES)
    IN  [j \in 1..Len(kept) |-> <<kept[j], g.ts[kept[j]]>>]

Call(op, arg) == [repo |-> idx, op |-> op, arg |-> arg]

-----------------------------------------------------------------------------
(* RepoManageService.prune, main.py:338-381 *)

\* sync is not running: the state of its variables under SpecPrune
SyncIdle ==
    /\ fs = {}
    /\ group_dir_exists = FALSE
    /\ remote = {}
    /\ spc = "idle"
    /\ page = 0
    /\ results = <<>>
    /\ gitlab_repositories = <<>>
    /\ to_delete = <<>>
    /\ typed = <<>>
    /\ prompts = 0
    /\ del_idx = 0
    /\ deleted_count = 0
    /\ failed_deletions = <<>>
    /\ removals = <<>>
    /\ api_error = FALSE
    /\ fs_start = {}
    /\ printed = None
    /\ previous_run = <<>>

\* main is not running: the state of its variables under SpecPrune and SpecSync
MainIdle ==
    /\ args = [glab |-> TRUE, base_isdir |-> TRUE, token |-> TRUE, group_id |-> TRUE,
                sync |-> FALSE, clone |-> FALSE, cleanup |-> FALSE]
    /\ mpc = "idle"
    /\ raised = None
    /\ exit_status = 0
    /\ effects = <<>>

\* prune's variables before its first statement
PruneStart(position) ==
    /\ now \in ClockValues
    /\ idx = 0
    /\ repo = Unopened
    /\ ppc = position
    /\ active_branch = None
    /\ default_branch = None
    /\ sc_result = None
    /\ all_branches = <<>>
    /\ k = 0
    /\ deleted = <<>>
    /\ not_deleted = <<>>
    /\ abnormal_state = <<>>
    /\ calls = <<>>
    /\ summary = NoSummary

InitPrune == PruneStart("for_repository") /\ SyncIdle /\ MainIdle

\* the next repository is opened and safe_checkout is entered whatever the
\* active branch
PruneNextRepositoryAlwaysCheckout ==
    /\ UNCHANGED <<svars, mvars>>
    /\ ppc = "for_repository"
    /\ idx < Len(RepositoryPaths)
    /\ \E g \in RepoStates(now) :
        /\ idx' = idx + 1
        /\ repo' = g
        /\ active_branch' = get_active_branch(g)
        /\ ppc' = "safe_checkout"
    /\ default_branch' = None
    /\ sc_result' = None
    /\ all_branches' = <<>>
    /\ k' = 0
    /\ calls' = <<>>
    /\ UNCHANGED <<now, deleted, not_deleted, abnormal_state, summary>>

\* the next repository is opened and safe_checkout is passed over
PruneNextRepositoryNoCheckout ==
    /\ UNCHANGED <<svars, mvars>>
    /\ ppc = "for_repository"
    /\ idx < Len(RepositoryPaths)
    /\ \E g \in RepoStates(now) :
        /\ idx' = idx + 1
        /\ repo' = g
        /\ active_branch' = get_active_branch(g)
        /\ ppc' = "enumerate"
    /\ default_branch' = None
    /\ sc_result' = None
    /\ all_branches' = <<>>
    /\ k' = 0
    /\ calls' = <<>>
    /\ UNCHANGED <<now, deleted, not_deleted, abnormal_state, summary>>

\* main.py:343-347: the next repository is opened and its active branch read;
\* safe_checkout is entered unless the active branch is a protected one
PruneNextRepository ==
    /\ UNCHANGED <<svars, mvars>>
    /\ ppc = "for_repository"
    /\ idx < Len(RepositoryPaths)
    /\ \E g \in RepoStates(now) :
        /\ idx' = idx + 1
        /\ repo' = g
        /\ active_branch' = get_active_branch(g)
        /\ ppc' = IF get_active_branch(g) \notin PROTECTED_BRANCHES
                  THEN "safe_checkout" ELSE "enumerate"
    /\ default_branch' = None
    /\ sc_result' = None
    /\ all_branches' = <<>>
    /\ k' = 0
    /\ calls' = <<>>
    /\ UNCHANGED <<now, deleted, not_deleted, abnormal_state, summary>>

\* main.py:204-217: safe_checkout up to the dirty test. `remote_show_ok` is
\* whether `git remote show origin` ran; when it raises, safe_checkout's
\* except clause returns False. The entry in calls records the call and whether
\* the working tree was dirty when it was made
SafeCheckoutBegin ==
    /\ UNCHANGED <<svars, mvars>>
    /\ ppc = "safe_checkout"
    /\ \E remote_show_ok \in BOOLEAN :
        LET d == get_default_branch_name(repo)
            entered == Append(calls, Call("safe_checkout", repo.worktree # "clean"))
        IN  IF ~head_is_valid(repo)
            THEN /\ sc_result' = "False"
                 /\ ppc' = "enumerate"
                 /\ calls' = entered
                 /\ UNCHANGED default_branch
            ELSE IF ~remote_show_ok \/ d = None
            THEN /\ sc_result' = "False"
                 /\ ppc' = "enumerate"
                 /\ calls' = Append(entered, Call("remote_show", remote_show_ok))
                 /\ UNCHANGED default_branch
            ELSE /\ default_branch' = d
                 /\ calls' = Append(entered, Call("remote_show", TRUE))
                 /\ ppc' = IF has_uncommitted_files(repo)
                           THEN "backup_checkout_b" ELSE "checkout_default"
                 /\ UNCHANGED sc_result
    /\ UNCHANGED <<now, idx, repo, active_branch, all_branches, k, deleted,
                   not_deleted, abnormal_state, summary>>

\* main.py:219-220: git checkout -b backup-<timestamp>
BackupCheckoutB ==
    /\ UNCHANGED <<svars, mvars>>
    /\ ppc = "backup_checkout_b"
    /\ \E ok \in BOOLEAN :
        /\ calls' = Append(calls, Call("checkout_b", ok))
        /\ IF ok
           THEN /\ repo' = git_checkout_b(repo, BackupBranchName)
                /\ ppc' = "backup_add"
                /\ UNCHANGED sc_result
           ELSE /\ sc_result' = "False"
                /\ ppc' = "enumerate"
                /\ UNCHANGED repo
    /\ UNCHANGED <<now, idx, active_branch, default_branch, all_branches, k,
                   deleted, not_deleted, abnormal_state, summary>>

\* main.py:221: git add --all
BackupAdd ==
    /\ UNCHANGED <<svars, mvars>>
    /\ ppc = "backup_add"
    /\ \E ok \in BOOLEAN :
        /\ calls' = Append(calls, Call("add", ok))
        /\ IF ok
           THEN /\ ppc' = "backup_commit"
                /\ UNCHANGED sc_result
           ELSE /\ sc_result' = "False"
                /\ ppc' = "enumerate"
    /\ UNCHANGED <<now, idx, repo, active_branch, default_branch, all_branches,
                   k, deleted, not_deleted, abnormal_state, summary>>

\* main.py:222: git commit -m "pruner: auto backup"
BackupCommit ==
    /\ UNCHANGED <<svars, mvars>>
    /\ ppc = "backup_commit"
    /\ \E ok \in BOOLEAN :
        /\ calls' = Append(calls, Call("commit", ok))
        /\ IF ok
           THEN /\ repo' = git_commit(repo, DEFAULT_BACKUP_COMMIT_MESSAGE, now)
                /\ ppc' = "checkout_default"
                /\ UNCHANGED sc_result
           ELSE /\ sc_result' = "False"
                /\ ppc' = "enumerate"
                /\ UNCHANGED repo
    /\ UNCHANGED <<now, idx, active_branch, default_branch, all_branches, k,
                   deleted, not_deleted, abnormal_state, summary>>

\* main.py:224-230: git checkout <default_branch>; safe_checkout returns
CheckoutDefault ==
    /\ UNCHANGED <<svars, mvars>>
    /\ ppc = "checkout_default"
    /\ \E ok \in BOOLEAN, remote_ts \in CommitTimes(now) :
        /\ calls' = Append(calls, Call("checkout", ok))
        /\ sc_result' = IF ok THEN "True" ELSE "False"
        /\ repo' = IF ok
                   THEN git_checkout(repo, default_branch, remote_ts)
                   ELSE repo
    /\ ppc' = "enumerate"
    /\ UNCHANGED <<now, idx, active_branch, default_branch, all_branches, k,
                   deleted, not_deleted, abnormal_state, summary>>

\* main.py:349-352: a detached repository is recorded, then the branches are
\* listed. run_command raises when git for-each-ref fails or times out, and
\* prune does not catch it
Enumerate ==
    /\ UNCHANGED <<svars, mvars>>
    /\ ppc = "enumerate"
    /\ abnormal_state' = IF active_branch = None
                         THEN Append(abnormal_state, idx) ELSE abnormal_state
    /\ \E ok \in BOOLEAN :
        /\ calls' = Append(calls, Call("for_each_ref", ok))
        /\ IF ok
           THEN /\ all_branches' = get_branches_with_commit_dates(repo)
                /\ k' = 1
                /\ ppc' = "for_branch"
           ELSE /\ ppc' = "raised"
                /\ UNCHANGED <<all_branches, k>>
    /\ UNCHANGED <<now, idx, repo, active_branch, default_branch, sc_result,
                   deleted, not_deleted, summary>>

\* no branch is passed over for its age
too_young_never(commit_timestamp) == FALSE

\* the test of main.py:355-357, without the division
too_young(commit_timestamp) ==
    now - commit_timestamp < DAYS_OLD_THRESHOLD * SecondsPerDay

\* the branch loop leaving at the first branch delete_branch fails on
DeleteBranchStepStopsAtFailure ==
    /\ UNCHANGED <<svars, mvars>>
    /\ ppc = "for_branch"
    /\ k <= Len(all_branches)
    /\ LET branch_to_delete == all_branches[k][1]
           commit_timestamp == all_branches[k][2]
       IN  IF too_young(commit_timestamp)
           THEN /\ k' = k + 1
                /\ UNCHANGED <<repo, deleted, not_deleted, calls>>
           ELSE \E ok \in {b \in BOOLEAN : b => can_delete_head(repo, branch_to_delete)} :
                /\ calls' = Append(calls, Call("delete_head", branch_to_delete))
                /\ IF ok
                   THEN /\ repo' = git_delete_head(repo, branch_to_delete)
                        /\ deleted' = Append(deleted, <<idx, branch_to_delete>>)
                        /\ k' = k + 1
                        /\ UNCHANGED not_deleted
                   ELSE /\ not_deleted' = Append(not_deleted, <<idx, branch_to_delete>>)
                        /\ k' = Len(all_branches) + 1
                        /\ UNCHANGED <<repo, deleted>>
    /\ UNCHANGED <<now, idx, ppc, active_branch, default_branch, sc_result,
                   all_branches, abnormal_state, summary>>

\* main.py:354-362: one pass of the branch loop
DeleteBranchStep ==
    /\ UNCHANGED <<svars, mvars>>
    /\ ppc = "for_branch"
    /\ k <= Len(all_branches)
    /\ LET branch_to_delete == all_branches[k][1]
           commit_timestamp == all_branches[k][2]
       IN  IF too_young(commit_timestamp)
           THEN UNCHANGED <<repo, deleted, not_deleted, calls>>
           ELSE \E ok \in {b \in BOOLEAN : b => can_delete_head(repo, branch_to_delete)} :
                /\ calls' = Append(calls, Call("delete_head", branch_to_delete))
                /\ IF ok
                   THEN /\ repo' = git_delete_head(repo, branch_to_delete)
                        /\ deleted' = Append(deleted, <<idx, branch_to_delete>>)
                        /\ UNCHANGED not_deleted
                   ELSE /\ not_deleted' = Append(not_deleted, <<idx, branch_to_delete>>)
                        /\ UNCHANGED <<repo, deleted>>
    /\ k' = k + 1
    /\ UNCHANGED <<now, idx, ppc, active_branch, default_branch, sc_result,
                   all_branches, abnormal_state, summary>>

\* the branch loop is exhausted: back to `for repository`
BranchLoopEnd ==
    /\ UNCHANGED <<svars, mvars>>
    /\ ppc = "for_branch"
    /\ k > Len(all_branches)
    /\ ppc' = "for_repository"
    /\ UNCHANGED <<now, idx, repo, active_branch, default_branch, sc_result,
                   all_branches, k, deleted, not_deleted, abnormal_state, calls,
                   summary>>

\* main.py:364-381: the summary, once every repository is processed
PrintSummary ==
    /\ UNCHANGED <<svars, mvars>>
    /\ ppc = "for_repository"
    /\ idx = Len(RepositoryPaths)
    /\ summary' = <<[deleted |-> deleted, not_deleted |-> not_deleted,
                    abnormal_state |-> abnormal_state]>>
    /\ ppc' = "done"
    /\ UNCHANGED <<now, idx, repo, active_branch, default_branch, sc_result,
                   all_branches, k, deleted, not_deleted, abnormal_state, calls>>

NextPrune ==
    \/ PruneNextRepository
    \/ SafeCheckoutBegin
    \/ BackupCheckoutB
    \/ BackupAdd
    \/ BackupCommit
    \/ CheckoutDefault
    \/ Enumerate
    \/ DeleteBranchStep
    \/ BranchLoopEnd
    \/ PrintSummary

SpecPrune == InitPrune /\ [][NextPrune]_vars

-----------------------------------------------------------------------------
(* Paths: a path is the sequence of its segments, "/" being <<>> *)

\* main(): --group_directory and --group_id
base_directory == <<"base">>

group_id == "grp"

\* Path.resolve() of an absolute path: "." dropped, ".." steps up
RECURSIVE ResolveFrom(_, _)
ResolveFrom(done, rest) ==
    IF rest = <<>> THEN done
    ELSE IF Head(rest) = "." THEN ResolveFrom(done, Tail(rest))
    ELSE IF Head(rest) = ".."
         THEN ResolveFrom(IF done = <<>> THEN <<>> ELSE SubSeq(done, 1, Len(done) - 1),
                          Tail(rest))
    ELSE ResolveFrom(Append(done, Head(rest)), Tail(rest))

Resolve(path) == ResolveFrom(<<>>, path)

\* the group directory without the group_id joined to the base directory
group_directory_is_base == Resolve(base_directory)

\* GitLabService.__init__, main.py:388
group_directory == Resolve(base_directory \o <<group_id>>)

\* relative_to accepting every path
IsRelativeToAnything(path, other) == TRUE

\* PurePath.relative_to(other) does not raise ValueError: other is path or one
\* of its ancestors
IsRelativeTo(path, other) ==
    /\ Len(path) >= Len(other)
    /\ SubSeq(path, 1, Len(other)) = other

\* the checkouts that may be on disk when sync starts: the group directory
\* itself, two repositories of the group, a repository of another group
LocalUniverse ==
    { group_directory,
      group_directory \o <<"repoA">>,
      group_directory \o <<"repoB">>,
      base_directory \o <<"other", "repoX">> }

\* path_with_namespace values the listing may hold, in the listing's order:
\* "grp/repoA", "grp/repoB", "repoB" and "grp/../other/repoX"
RemoteUniverse ==
    << <<"grp", "repoA">>,
       <<"grp", "repoB">>,
       <<"repoB">>,
       <<"grp", "..", "other", "repoX">> >>

\* the sequences that list the set S once each, a directory before the
\* directories below it: the orders os.walk can visit S in
Walks(S) ==
    { w \in [1..Cardinality(S) -> S] :
        /\ \A a, b \in 1..Cardinality(S) : a # b => w[a] # w[b]
        /\ \A a, b \in 1..Cardinality(S) :
             (w[a] # w[b] /\ IsRelativeTo(w[b], w[a])) => a < b }

\* RepositoryGroup.find_local_repos, main.py:112-127: the checkouts at or below
\* search_dir, as the values of git_repos in insertion order
find_local_repos(search_dir, exists) ==
    IF ~exists THEN { <<>> }
    ELSE Walks({ d \in fs : IsRelativeTo(d, search_dir) })

-----------------------------------------------------------------------------
(* Operator input: a line is the sequence of its characters *)

Whitespace == {" ", "\t", "\n"}

RECURSIVE lstrip(_)
lstrip(s) == IF s # <<>> /\ Head(s) \in Whitespace THEN lstrip(Tail(s)) ELSE s

RECURSIVE rstrip(_)
rstrip(s) ==
    IF s # <<>> /\ s[Len(s)] \in Whitespace
    THEN rstrip(SubSeq(s, 1, Len(s) - 1)) ELSE s

\* str.strip()
strip(s) == rstrip(lstrip(s))

UpperCase == <<"A", "C", "D", "E", "L", "N", "O", "T", "X">>
LowerCase == <<"a", "c", "d", "e", "l", "n", "o", "t", "x">>

\* the line as typed, no letter changed
lower_missing(s) == s

\* str.lower(), on the letters the typed lines use
lower(s) ==
    [j \in 1..Len(s) |->
        IF \E u \in 1..Len(UpperCase) : UpperCase[u] = s[j]
        THEN LowerCase[CHOOSE u \in 1..Len(UpperCase) : UpperCase[u] = s[j]]
        ELSE s[j]]

\* the characters of self.group_id
GroupIdChars == <<"g", "r", "p">>

\* f"DELETE {self.group_id}", main.py:517
ConfirmationString == <<"D", "E", "L", "E", "T", "E", " ">> \o GroupIdChars

\* ["no", "n", "cancel"], main.py:513
CancelTokens == { <<"n", "o">>, <<"n">>, <<"c", "a", "n", "c", "e", "l">> }

\* the lines the operator may type:
\*   'DELETE grp'
\*   'delete grp'
\*   'Delete grp'
\*   ' DELETE grp'
\*   'DELETE grp '
\*   'DELETE  grp'
\*   'DELETE grpX'
\*   'DELETE'
\*   'no'
\*   'NO'
\*   'No'
\*   'n'
\*   'N'
\*   'cancel'
\*   'Cancel'
\*   ' no '
\*   'nope'
\*   'yes'
\*   ''
TypedLines ==
    { <<"D", "E", "L", "E", "T", "E", " ", "g", "r", "p">>,
      <<"d", "e", "l", "e", "t", "e", " ", "g", "r", "p">>,
      <<"D", "e", "l", "e", "t", "e", " ", "g", "r", "p">>,
      <<" ", "D", "E", "L", "E", "T", "E", " ", "g", "r", "p">>,
      <<"D", "E", "L", "E", "T", "E", " ", "g", "r", "p", " ">>,
      <<"D", "E", "L", "E", "T", "E", " ", " ", "g", "r", "p">>,
      <<"D", "E", "L", "E", "T", "E", " ", "g", "r", "p", "X">>,
      <<"D", "E", "L", "E", "T", "E">>,
      <<"n", "o">>,
      <<"N", "O">>,
      <<"N", "o">>,
      <<"n">>,
      <<"N">>,
      <<"c", "a", "n", "c", "e", "l">>,
      <<"C", "a", "n", "c", "e", "l">>,
      <<" ", "n", "o", " ">>,
      <<"n", "o", "p", "e">>,
      <<"y", "e", "s">>,
      <<>> }

\* at most this many lines are read from the operator in one run
MaxPrompts == 2

\* "per_page": 100, main.py:288
PerPage == 100

-----------------------------------------------------------------------------
(* GitLabRepo.get_json_response / get_group_repositories, main.py:279-322 *)

\* the group's projects in the listing's order
RemoteListing == SelectSeq(RemoteUniverse, LAMBDA p : p \in remote)

\* the body of page number n
PageData(n) ==
    SubSeq(RemoteListing, (n - 1) * PerPage + 1,
           IF n * PerPage < Len(RemoteListing) THEN n * PerPage ELSE Len(RemoteListing))

\* the answers to one GET: a JSON list; a status other than 200; JSON that is
\* not a list; a body that is not JSON
Responses == {"list", "http_error", "not_list", "bad_json"}

-----------------------------------------------------------------------------
(* GitLabService, main.py:384-552 *)

\* the remote path joined to the group directory with its group prefix kept
map_one_keep_prefix(path) == Resolve(group_directory \o path)

\* _map_gitlab_group_repos_to_absolute_path, main.py:414-429
\* path.startswith(f"{group_id}/") holds when the first segment is group_id and
\* another segment follows
map_one(path) ==
    LET local_path == IF Len(path) >= 2 /\ path[1] = group_id
                      THEN Tail(path) ELSE path
    IN  Resolve(group_directory \o local_path)

map_gitlab_group_repos_to_absolute_path(repositories) ==
    { map_one(repositories[j]) : j \in 1..Len(repositories) }

\* _identify_repos_to_delete, main.py:434-438: the local checkouts that are not
\* mapped remote paths
repos_to_delete(local_repositories, mapped_gitlab_repositories) ==
    SelectSeq(local_repositories,
              LAMBDA full_path : Resolve(full_path) \notin mapped_gitlab_repositories)

\* _identify_repos_to_delete, main.py:439-456: those of them relative_to accepts
identify_repos_to_delete(local_repositories, mapped_gitlab_repositories) ==
    SelectSeq(repos_to_delete(local_repositories, mapped_gitlab_repositories),
              LAMBDA r : IsRelativeTo(r, group_directory))

\* where `glab repo clone -g <group> -p` run in base_directory puts a project
clone_target(path) == Resolve(base_directory \o path)

InitSync ==
    /\ PruneStart("idle")
    /\ MainIdle
    /\ fs \in SUBSET LocalUniverse
    /\ group_dir_exists \in
         IF \E d \in fs : IsRelativeTo(d, group_directory) THEN {TRUE} ELSE BOOLEAN
    /\ remote \in SUBSET { RemoteUniverse[j] : j \in 1..Len(RemoteUniverse) }
    /\ spc = "start"
    /\ page = 0
    /\ results = <<>>
    /\ gitlab_repositories = <<>>
    /\ to_delete = <<>>
    /\ typed = <<>>
    /\ prompts = 0
    /\ del_idx = 0
    /\ deleted_count = 0
    /\ failed_deletions = <<>>
    /\ removals = <<>>
    /\ api_error = FALSE
    /\ fs_start = fs
    /\ printed = None
    /\ previous_run = <<>>

\* main.py:463-464: clone_group_repositories, then _ensure_group_directory_exists.
\* Popen raises OSError when glab cannot be started, and sync re-raises it;
\* otherwise glab clones some of the projects that are not on disk yet
SyncClone ==
    /\ UNCHANGED <<pvars, mvars, previous_run>>
    /\ spc = "start"
    /\ \E popen_ok \in BOOLEAN :
        IF ~popen_ok
        THEN /\ spc' = "raised"
             /\ UNCHANGED <<fs, group_dir_exists, page>>
        ELSE \E cloned \in SUBSET { clone_target(p) : p \in remote } :
             /\ fs' = fs \cup cloned
             /\ group_dir_exists' = TRUE
             /\ page' = 1
             /\ spc' = "get_json_response"
    /\ UNCHANGED <<remote, results, gitlab_repositories, to_delete, typed, prompts,
                   del_idx, deleted_count, failed_deletions, removals, api_error,
                   fs_start, printed>>

\* main.py:286-308 and 313-322: one GET of the listing. A status other than 200
\* or a body that is not a JSON list raises GitLabAPIError inside
\* get_json_response; get_group_repositories catches it and returns {}
FetchPage ==
    /\ UNCHANGED <<pvars, mvars, previous_run>>
    /\ spc = "get_json_response"
    /\ \E response \in Responses :
        IF response = "list"
        THEN IF PageData(page) = <<>>
             THEN /\ gitlab_repositories' = results
                  /\ spc' = "reconcile"
                  /\ UNCHANGED <<page, results, api_error>>
             ELSE /\ results' = results \o PageData(page)
                  /\ page' = page + 1
                  /\ UNCHANGED <<gitlab_repositories, spc, api_error>>
        ELSE /\ api_error' = TRUE
             /\ gitlab_repositories' = <<>>
             /\ spc' = "reconcile"
             /\ UNCHANGED <<page, results>>
    /\ UNCHANGED <<fs, group_dir_exists, remote, to_delete, typed, prompts, del_idx,
                   deleted_count, failed_deletions, removals, fs_start, printed>>

\* the candidates are computed and the operator is asked whatever their number
ReconcileAlwaysPrompts ==
    /\ UNCHANGED <<pvars, mvars, previous_run>>
    /\ spc = "reconcile"
    /\ \E local_repositories \in find_local_repos(group_directory, group_dir_exists) :
        LET mapped_gitlab_repositories ==
                map_gitlab_group_repos_to_absolute_path(gitlab_repositories)
            candidates ==
                identify_repos_to_delete(local_repositories, mapped_gitlab_repositories)
        IN  /\ to_delete' = candidates
            /\ spc' = "prompt"
            /\ UNCHANGED printed
    /\ UNCHANGED <<fs, group_dir_exists, remote, page, results, gitlab_repositories,
                   typed, prompts, del_idx, deleted_count, failed_deletions,
                   removals, api_error, fs_start>>

\* main.py:472-506 and 548-552: the candidates are computed; with none, sync
\* logs that there is nothing to delete and returns
Reconcile ==
    /\ UNCHANGED <<pvars, mvars, previous_run>>
    /\ spc = "reconcile"
    /\ \E local_repositories \in find_local_repos(group_directory, group_dir_exists) :
        LET mapped_gitlab_repositories ==
                map_gitlab_group_repos_to_absolute_path(gitlab_repositories)
            candidates ==
                identify_repos_to_delete(local_repositories, mapped_gitlab_repositories)
        IN  /\ to_delete' = candidates
            /\ IF candidates # <<>>
               THEN /\ spc' = "prompt"
                    /\ UNCHANGED printed
               ELSE /\ spc' = "done"
                    /\ printed' = "nothing_to_delete"
    /\ UNCHANGED <<fs, group_dir_exists, remote, page, results, gitlab_repositories,
                   typed, prompts, del_idx, deleted_count, failed_deletions,
                   removals, api_error, fs_start>>

\* the loop's tests with the confirmation compared without regard to case
prompt_decision_any_case(line) ==
    LET response == strip(line)
    IN  IF lower(response) \in CancelTokens THEN "cancel"
        ELSE IF lower(response) = lower(ConfirmationString) THEN "proceed"
        ELSE "again"

\* main.py:509-523: what the loop does with the line read
prompt_decision(line) ==
    LET response == strip(line)
    IN  IF lower(response) \in CancelTokens THEN "cancel"
        ELSE IF response = ConfirmationString THEN "proceed"
        ELSE "again"

\* main.py:508-527: one pass of the confirmation loop
Prompt ==
    /\ UNCHANGED <<pvars, mvars, previous_run>>
    /\ spc = "prompt"
    /\ prompts < MaxPrompts
    /\ \E line \in TypedLines :
        /\ typed' = line
        /\ prompts' = prompts + 1
        /\ IF prompt_decision(line) = "cancel"
           THEN /\ printed' = "cancelled"
                /\ spc' = "done"
                /\ UNCHANGED del_idx
           ELSE IF prompt_decision(line) = "proceed"
           THEN /\ spc' = "deleting"
                /\ del_idx' = 1
                /\ UNCHANGED printed
           ELSE UNCHANGED <<printed, spc, del_idx>>
    /\ UNCHANGED <<fs, group_dir_exists, remote, page, results, gitlab_repositories,
                   to_delete, deleted_count, failed_deletions, removals, api_error,
                   fs_start>>

\* remove_directory, main.py:99-105: what shutil.rmtree can do to directory.
\* FileNotFoundError is passed over and OSError is logged: neither is raised
rmtree_outcomes(directory) ==
    IF directory \in fs THEN {"removed", "os_error"} ELSE {"not_found"}

\* shutil.rmtree returning with the directory still in place
rmtree_leaves_directory(directory) == fs

\* the checkouts left after shutil.rmtree(directory) succeeded
rmtree(directory) == { d \in fs : ~IsRelativeTo(d, directory) }

\* the deletion loop leaving at the first directory rmtree fails on
RemoveStepStopsAtError ==
    /\ UNCHANGED <<pvars, mvars, previous_run>>
    /\ spc = "deleting"
    /\ del_idx <= Len(to_delete)
    /\ LET directory == to_delete[del_idx]
       IN  \E outcome \in rmtree_outcomes(directory) :
            /\ removals' = Append(removals, <<directory, outcome>>)
            /\ fs' = IF outcome = "removed" THEN rmtree(directory) ELSE fs
            /\ group_dir_exists' =
                 IF outcome = "removed" /\ IsRelativeTo(group_directory, directory)
                 THEN FALSE ELSE group_dir_exists
            /\ deleted_count' = IF outcome = "os_error"
                                THEN deleted_count ELSE deleted_count + 1
            /\ del_idx' = IF outcome = "os_error"
                          THEN Len(to_delete) + 1 ELSE del_idx + 1
    /\ UNCHANGED <<remote, spc, page, results, gitlab_repositories, to_delete, typed,
                   prompts, failed_deletions, api_error, fs_start, printed>>

\* main.py:529-540: one pass of the deletion loop. directory.relative_to(
\* self.group_directory) comes first (531): for a directory outside the group
\* directory it raises ValueError, remove_directory is not reached, and the
\* relative_to of the except branch (537) raises ValueError again, which leaves
\* sync. Otherwise remove_directory returns normally whatever rmtree did, so
\* the success branch always runs
RemoveStep ==
    /\ UNCHANGED <<pvars, mvars, previous_run>>
    /\ spc = "deleting"
    /\ del_idx <= Len(to_delete)
    /\ LET directory == to_delete[del_idx]
       IN  IF ~IsRelativeTo(directory, group_directory)
           THEN /\ spc' = "raised"
                /\ UNCHANGED <<removals, fs, group_dir_exists, deleted_count, del_idx>>
           ELSE /\ \E outcome \in rmtree_outcomes(directory) :
                     /\ removals' = Append(removals, <<directory, outcome>>)
                     /\ fs' = IF outcome = "removed" THEN rmtree(directory) ELSE fs
                     /\ group_dir_exists' =
                          IF outcome = "removed" /\ IsRelativeTo(group_directory, directory)
                          THEN FALSE ELSE group_dir_exists
                     /\ deleted_count' = deleted_count + 1
                /\ del_idx' = del_idx + 1
                /\ UNCHANGED spc
    /\ UNCHANGED <<remote, page, results, gitlab_repositories, to_delete, typed,
                   prompts, failed_deletions, api_error, fs_start, printed>>

\* main.py:542-547: the deletion summary, which prints deleted_count and
\* failed_deletions
DeletionSummary ==
    /\ UNCHANGED <<pvars, mvars, previous_run>>
    /\ spc = "deleting"
    /\ del_idx > Len(to_delete)
    /\ printed' = "summary"
    /\ spc' = "done"
    /\ UNCHANGED <<fs, group_dir_exists, remote, page, results, gitlab_repositories,
                   to_delete, typed, prompts, del_idx, deleted_count,
                   failed_deletions, removals, api_error, fs_start>>

\* main.py:729-730 on the next invocation of the program: sync is called again,
\* with the same projects on GitLab, on the disk the first run left
SyncAgain ==
    /\ UNCHANGED <<pvars, mvars>>
    /\ spc = "done"
    /\ previous_run = <<>>
    /\ previous_run' =
         << [printed |-> printed,
             no_removal_failed |->
                 \A j \in 1..Len(removals) : removals[j][2] # "os_error"] >>
    /\ spc' = "start"
    /\ page' = 0
    /\ results' = <<>>
    /\ gitlab_repositories' = <<>>
    /\ to_delete' = <<>>
    /\ typed' = <<>>
    /\ prompts' = 0
    /\ del_idx' = 0
    /\ deleted_count' = 0
    /\ failed_deletions' = <<>>
    /\ removals' = <<>>
    /\ api_error' = FALSE
    /\ fs_start' = fs
    /\ printed' = None
    /\ UNCHANGED <<fs, group_dir_exists, remote>>

NextSync ==
    \/ SyncClone
    \/ FetchPage
    \/ Reconcile
    \/ Prompt
    \/ RemoveStep
    \/ DeletionSummary
    \/ SyncAgain

SpecSync == InitSync /\ [][NextSync]_vars

-----------------------------------------------------------------------------
(* main, main.py:670-749 *)

\* the command lines and environments main may be started with: whether glab is
\* on PATH, whether --group_directory is a directory, whether GITLAB_TOKEN is
\* set, whether --group_id is non-empty, and the three switches
ArgsUniverse ==
    [glab : BOOLEAN, base_isdir : BOOLEAN, token : BOOLEAN, group_id : BOOLEAN,
     sync : BOOLEAN, clone : BOOLEAN, cleanup : BOOLEAN]

InitMain ==
    /\ PruneStart("idle")
    /\ SyncIdle
    /\ args \in ArgsUniverse
    /\ mpc = "check_dependencies"
    /\ raised = None
    /\ exit_status = 0
    /\ effects = <<>>

\* main.py:711 and 654-659: check_dependencies("glab") raises EnvironmentError
\* when glab is not on PATH
MainCheckDependencies ==
    /\ UNCHANGED <<pvars, svars>>
    /\ mpc = "check_dependencies"
    /\ IF args.glab
       THEN /\ mpc' = "base_directory"
            /\ UNCHANGED raised
       ELSE /\ mpc' = "except"
            /\ raised' = "EnvironmentError"
    /\ UNCHANGED <<args, exit_status, effects>>

\* main.py:713-716 and 662-667: the base directory is created when it is not a
\* directory; create_directory raises EnvironmentError when os.makedirs fails
MainBaseDirectory ==
    /\ UNCHANGED <<pvars, svars>>
    /\ mpc = "base_directory"
    /\ \E makedirs_ok \in BOOLEAN :
        IF args.base_isdir \/ makedirs_ok
        THEN /\ effects' = IF args.base_isdir THEN effects
                                              ELSE Append(effects, "makedirs")
             /\ mpc' = IF args.group_id THEN "gitlab_repo" ELSE "cleanup"
             /\ UNCHANGED raised
        ELSE /\ mpc' = "except"
             /\ raised' = "EnvironmentError"
             /\ UNCHANGED effects
    /\ UNCHANGED <<args, exit_status>>

\* main.py:723-728 and 261-272: GitLabRepo.__init__ reads the token; _get_token
\* calls sys.exit(1) when it is not set. SystemExit is not an Exception, so the
\* except clause of main does not catch it
MainGitLabRepo ==
    /\ UNCHANGED <<pvars, svars>>
    /\ mpc = "gitlab_repo"
    /\ IF args.token
       THEN /\ mpc' = "sync"
            /\ UNCHANGED <<raised, exit_status>>
       ELSE /\ mpc' = "exited"
            /\ raised' = "SystemExit"
            /\ exit_status' = 1
    /\ UNCHANGED <<args, effects>>

\* main.py:729-730: sync() returns (nothing to delete, cancelled, or after the
\* deletions); or clone_group_repositories re-raises the OSError of Popen before
\* anything was done; or input() raises EOFError at the prompt
MainSync ==
    /\ UNCHANGED <<pvars, svars>>
    /\ mpc = "sync"
    /\ IF ~args.sync
       THEN /\ mpc' = "clone"
            /\ UNCHANGED <<raised, exit_status, effects>>
       ELSE \E outcome \in {"returned", "OSError", "EOFError"} :
            /\ effects' = IF outcome = "OSError" THEN effects
                                                 ELSE Append(effects, "sync")
            /\ raised' = IF outcome = "returned" THEN raised ELSE outcome
            /\ mpc' = CASE outcome = "returned" -> "clone"
                        [] outcome = "OSError" -> "except"
                        [] outcome = "EOFError" -> "exited"
            /\ exit_status' = IF outcome = "EOFError" THEN 1 ELSE exit_status
    /\ UNCHANGED args

\* main.py:732-733: clone_group_repositories() returns, or re-raises the
\* OSError of Popen
MainClone ==
    /\ UNCHANGED <<pvars, svars>>
    /\ mpc = "clone"
    /\ IF ~args.clone
       THEN /\ mpc' = "cleanup"
            /\ UNCHANGED <<raised, effects>>
       ELSE \E outcome \in {"returned", "OSError"} :
            /\ effects' = IF outcome = "OSError" THEN effects
                                                 ELSE Append(effects, "clone")
            /\ raised' = IF outcome = "returned" THEN raised ELSE outcome
            /\ mpc' = IF outcome = "returned" THEN "cleanup" ELSE "except"
    /\ UNCHANGED <<args, exit_status>>

\* main.py:735-746: without --cleanup main returns; without a group id it logs
\* an error and returns; otherwise prune() returns, or the CalledProcessError or
\* TimeoutExpired of run_command leaves it, which main does not catch
MainCleanup ==
    /\ UNCHANGED <<pvars, svars>>
    /\ mpc = "cleanup"
    /\ IF ~args.cleanup \/ ~args.group_id
       THEN /\ mpc' = "exited"
            /\ UNCHANGED <<raised, exit_status, effects>>
       ELSE \E outcome \in {"returned", "CalledProcessError"} :
            /\ effects' = Append(effects, "prune")
            /\ raised' = IF outcome = "returned" THEN raised ELSE outcome
            /\ exit_status' = IF outcome = "returned" THEN exit_status ELSE 1
            /\ mpc' = "exited"
    /\ UNCHANGED args

\* main.py:748-749: EnvironmentError (OSError) and GitLabAPIError are logged,
\* and main returns: the interpreter exits with status 0
MainExcept ==
    /\ UNCHANGED <<pvars, svars>>
    /\ mpc = "except"
    /\ mpc' = "exited"
    /\ UNCHANGED <<args, raised, exit_status, effects>>

NextMain ==
    \/ MainCheckDependencies
    \/ MainBaseDirectory
    \/ MainGitLabRepo
    \/ MainSync
    \/ MainClone
    \/ MainCleanup
    \/ MainExcept

SpecMain == InitMain /\ [][NextMain]_vars

-----------------------------------------------------------------------------
(* Properties of prune, checked under SpecPrune *)

\* the calls made on the current repository whose operation is op
CallsOf(op) == { j \in 1..Len(calls) : calls[j].op = op }

\* safe_checkout was entered on the current repository with a dirty working tree
EnteredDirty == \E j \in CallsOf("safe_checkout") : calls[j].arg = TRUE

\* safe_checkout has returned for the current repository
SafeCheckoutReturned == ppc = "enumerate" /\ sc_result # None

BackupCommitRecord == [branch |-> "backup-ts", message |-> "pruner: auto backup"]

\* C1: prune never calls delete_branch with master, main or develop, whatever
\* the active branch, the working tree, the branch ages and the outcome of
\* safe_checkout; nor does a protected name enter the deleted / not-deleted lists.
C1_ProtectedNeverDeleted ==
    /\ \A j \in CallsOf("delete_head") : calls[j].arg \notin {"master", "main", "develop"}
    /\ \A j \in 1..Len(deleted) : deleted[j][2] \notin {"master", "main", "develop"}
    /\ \A j \in 1..Len(not_deleted) : not_deleted[j][2] \notin {"master", "main", "develop"}

\* C1 witness: the branch loop of a repository that holds an old main branch
\* and a dirty working tree has run to its end and has deleted a branch.
C1_Witness ==
    /\ ppc = "for_branch"
    /\ k > Len(all_branches)
    /\ "main" \in repo.branches
    /\ repo.ts["main"] < now
    /\ EnteredDirty
    /\ CallsOf("delete_head") # {}

\* C2 as claimed: whenever safe_checkout was entered with a dirty working tree,
\* it returns with the backup branch in place holding the backup commit, and it
\* checks out the default branch only after that commit.
C2_BackupAlwaysMade ==
    /\ (SafeCheckoutReturned /\ EnteredDirty) =>
          /\ "backup-ts" \in repo.branches
          /\ BackupCommitRecord \in repo.new_commits
    /\ EnteredDirty =>
          \A j \in CallsOf("checkout") :
              \E c \in CallsOf("commit") : c < j /\ calls[c].arg = TRUE

\* C2 amended: entered with a dirty working tree, safe_checkout checks out the
\* default branch only after the backup commit was created; and when it returns
\* True the backup branch exists and holds exactly one new commit, with the
\* message "pruner: auto backup". (It returns False without a backup when the
\* repository has no commits, the default branch is not resolved or a backup
\* step fails.)
C2_BackupBeforeCheckout ==
    /\ (SafeCheckoutReturned /\ EnteredDirty /\ sc_result = "True") =>
          /\ "backup-ts" \in repo.branches
          /\ repo.new_commits = {BackupCommitRecord}
    /\ EnteredDirty =>
          \A j \in CallsOf("checkout") :
              \E c \in CallsOf("commit") : c < j /\ calls[c].arg = TRUE

\* C2 witness: safe_checkout, entered dirty on a non-default branch, has
\* returned True with the default branch checked out.
C2_Witness ==
    /\ SafeCheckoutReturned
    /\ EnteredDirty
    /\ sc_result = "True"
    /\ active_branch = "feature-x"
    /\ repo.head = default_branch
    /\ "backup-ts" \in repo.branches

\* C3 as claimed: when prune has finished with a repository for which
\* safe_checkout made a backup commit, the backup branch still exists.
C3_BackupSurvivesPrune ==
    (ppc \in {"for_repository", "done"} /\ idx >= 1) =>
        (BackupCommitRecord \in repo.new_commits => "backup-ts" \in repo.branches)

\* prune has been left: by its last statement, or by an exception
PruneEnded == ppc \in {"done", "raised"}

\* C15 as claimed: a git command that fails in one repository (here the branch
\* listing, git for-each-ref) does not end the run with an exception; prune goes
\* on with the later repositories.
C15_FailureStaysInRepository ==
    (\E j \in CallsOf("for_each_ref") : calls[j].arg = FALSE) => ppc # "raised"

\* C16 as claimed, for cleanup: whenever prune has ended, also after a
\* repository in which a git command failed, it has printed its summary.
C16_PruneEndsWithSummary ==
    PruneEnded => Len(summary) = 1

\* C17 as claimed: for a repository whose HEAD is detached, prune does not call
\* safe_checkout: no default branch is looked up, no backup branch is created
\* and nothing is checked out.
C17_DetachedSkipsSafeCheckout ==
    (idx >= 1 /\ active_branch = None) =>
        /\ CallsOf("safe_checkout") = {}
        /\ CallsOf("remote_show") = {}
        /\ CallsOf("checkout_b") = {}
        /\ CallsOf("checkout") = {}

\* delete_branch was called with branch b in the current repository
Attempted(b) == \E c \in CallsOf("delete_head") : calls[c].arg = b

\* the branches of the current repository the branch loop has dealt with
LoopPassed == { j \in 1..Len(all_branches) : j < k }

\* the branch loop of the current repository has run to its end
BranchLoopFinished == ppc = "for_branch" /\ k > Len(all_branches)

\* C18 as claimed: with threshold 0 every enumerated branch gets a deletion
\* attempt, whatever its last-commit timestamp.
C18_EveryBranchAttempted ==
    \A j \in LoopPassed : Attempted(all_branches[j][1])

\* C18 amended: an enumerated branch gets a deletion attempt if and only if
\* its age, current time minus last-commit timestamp, is at least the threshold
\* of 0 days: a branch whose last commit is dated later than the current time
\* has a negative age and gets no attempt.
C18_AttemptIffOldEnough ==
    \A j \in LoopPassed :
        Attempted(all_branches[j][1]) <=>
            (now - all_branches[j][2] >= DAYS_OLD_THRESHOLD * SecondsPerDay)

\* C18 witness: the loop has finished over two branches, one ten days old that
\* got its attempt, and one dated after the current time that got none.
C18_Witness ==
    /\ BranchLoopFinished
    /\ Len(all_branches) = 2
    /\ \E i, j \in 1..2 :
          /\ all_branches[i][2] > now
          /\ ~Attempted(all_branches[i][1])
          /\ all_branches[j][2] < now
          /\ Attempted(all_branches[j][1])

\* C19: in the current repository every branch the loop has passed that is old
\* enough got exactly one delete_branch call and has exactly one entry in the
\* deleted and not-deleted lists together, whatever happened to the branches
\* before it; and no other call was made.
C19_OneAttemptOneRecord ==
    /\ \A j \in LoopPassed :
          (now - all_branches[j][2] >= 0) =>
              /\ Cardinality({ c \in CallsOf("delete_head") :
                                  calls[c].arg = all_branches[j][1] }) = 1
              /\ Cardinality({ i \in 1..Len(deleted) :
                                  deleted[i] = <<idx, all_branches[j][1]>> })
                 + Cardinality({ i \in 1..Len(not_deleted) :
                                  not_deleted[i] = <<idx, all_branches[j][1]>> }) = 1
    /\ Cardinality(CallsOf("delete_head")) =
          Cardinality({ j \in LoopPassed : now - all_branches[j][2] >= 0 })

\* C19 witness: the loop has finished; the deletion of the first branch failed
\* and the second branch was deleted after it.
C19_Witness ==
    /\ BranchLoopFinished
    /\ Len(all_branches) >= 2
    /\ \E i \in 1..Len(not_deleted) : not_deleted[i] = <<idx, all_branches[1][1]>>
    /\ \E i \in 1..Len(deleted) : deleted[i] = <<idx, all_branches[2][1]>>

\* the calls safe_checkout makes
SafeCheckoutSteps == {"remote_show", "checkout_b", "add", "commit", "checkout"}

\* C20: in a repository whose active branch is a named, non-protected branch,
\* prune has called safe_checkout, and safe_checkout has returned, before the
\* branches are listed and before any delete_branch call; every step of
\* safe_checkout comes before the first delete_branch call.
C20_SafeCheckoutBeforeDeletion ==
    (idx >= 1 /\ active_branch \notin {"master", "main", "develop", None}) =>
        /\ (ppc \in {"enumerate", "for_branch"} \/ CallsOf("delete_head") # {}) =>
              /\ CallsOf("safe_checkout") = {1}
              /\ sc_result # None
        /\ \A d \in CallsOf("delete_head") :
              \A c \in 1..Len(calls) :
                  calls[c].op \in SafeCheckoutSteps => c < d

\* C20 witness: the active branch was wip with a dirty working tree,
\* safe_checkout made the backup and checked out the default branch, and a
\* branch has been deleted since.
C20_Witness ==
    /\ ppc = "for_branch"
    /\ active_branch = "wip"
    /\ EnteredDirty
    /\ sc_result = "True"
    /\ CallsOf("commit") # {}
    /\ \E i \in 1..Len(deleted) : deleted[i][1] = idx

\* the positions of prune that are inside safe_checkout
SafeCheckoutPositions ==
    {"safe_checkout", "backup_checkout_b", "backup_add", "backup_commit",
     "checkout_default"}

\* HEAD names a branch that has no commit yet: the repository has no commits
NoCommits(g) == g.head # None /\ g.head \notin g.branches

\* C21: no step of safe_checkout leaves prune by an exception; a step of
\* safe_checkout that fails makes it return False; and in a repository with no
\* commits, or whose default branch is not resolved (origin advertises no HEAD
\* branch, or git remote show fails), safe_checkout returns False at once with
\* the repository as it was: no backup branch, no commit, HEAD and working tree
\* unchanged.
C21_SafeCheckoutReturnsFalse ==
    [][ (ppc \in SafeCheckoutPositions) =>
         (LET last == calls'[Len(calls')]
              step_failed == last.op \in SafeCheckoutSteps /\ last.arg = FALSE
          IN  /\ ppc' # "raised"
              /\ step_failed =>
                    /\ sc_result' = "False"
                    /\ ppc' = "enumerate"
              /\ (ppc = "safe_checkout" /\
                    (NoCommits(repo) \/ repo.origin_head = None \/ step_failed)) =>
                    /\ sc_result' = "False"
                    /\ ppc' = "enumerate"
                    /\ repo' = repo
                    /\ \A j \in 1..Len(calls') :
                          calls'[j].op \in {"safe_checkout", "remote_show"})
      ]_vars

\* C21 witness: safe_checkout, entered with a dirty working tree in a
\* repository that has no commits, has returned False; nothing was done.
C21_Witness ==
    /\ SafeCheckoutReturned
    /\ sc_result = "False"
    /\ NoCommits(repo)
    /\ EnteredDirty
    /\ repo.new_commits = {}
    /\ Len(calls) = 1

\* C24 as claimed: prune never deletes the branch origin advertises as HEAD.
\* (Stated for the repositories whose active branch is a protected branch.)
C24_DefaultBranchNeverDeleted ==
    (idx >= 1 /\ active_branch \in {"master", "main", "develop"}) =>
        \A j \in 1..Len(deleted) :
            deleted[j][1] = idx => deleted[j][2] # repo.origin_head

\* C25: while prune works on a repository whose active branch is protected,
\* the only git commands it issues are the branch listing and the branch
\* deletions: safe_checkout is not called, HEAD and the working tree stay as
\* they were, no commit and no branch is created, and the only branches that
\* go are non-protected branches delete_branch was called with.
C25_ProtectedActiveBranchUntouched ==
    [][ (idx' >= 1 /\ active_branch' \in {"master", "main", "develop"}) =>
          /\ \A j \in 1..Len(calls') : calls'[j].op \in {"for_each_ref", "delete_head"}
          /\ sc_result' = None
          /\ repo'.head = active_branch'
          /\ repo'.new_commits = {}
          /\ idx' = idx =>
                /\ repo'.worktree = repo.worktree
                /\ repo'.head = repo.head
                /\ repo'.branches \subseteq repo.branches
                /\ \A b \in repo.branches \ repo'.branches :
                      /\ b \notin {"master", "main", "develop"}
                      /\ \E j \in 1..Len(calls') :
                            calls'[j].op = "delete_head" /\ calls'[j].arg = b
      ]_vars

\* C25 witness: the active branch is main, the working tree is dirty, and the
\* branch loop has finished having deleted a branch of this repository.
C25_Witness ==
    /\ BranchLoopFinished
    /\ active_branch = "main"
    /\ repo.head = "main"
    /\ repo.worktree = "modified"
    /\ \E j \in 1..Len(deleted) : deleted[j][1] = idx

-----------------------------------------------------------------------------
(* Properties of sync, checked under SpecSync *)

\* the directory the run manages: <base directory>/<group id>
ManagedGroupDirectory == <<"base", "grp">>

\* "grp/../other/repoX"
TraversalPath == <<"grp", "..", "other", "repoX">>

\* the directories remove_directory was called with, in call order
RemovedDirectories == [j \in 1..Len(removals) |-> removals[j][1]]

\* sync has printed its deletion summary
SummaryPrinted == spc = "done" /\ printed = "summary"

\* the operator's confirmation was accepted
Confirmed == spc = "deleting" \/ SummaryPrinted

\* a run whose listing was fetched without error and whose group directory is
\* not itself a checkout
OrdinaryRun == ~api_error /\ ManagedGroupDirectory \notin fs_start

\* the typed lines that are "DELETE grp" once surrounding whitespace is removed
ConfirmingLines ==
    { <<"D", "E", "L", "E", "T", "E", " ", "g", "r", "p">>,
      <<" ", "D", "E", "L", "E", "T", "E", " ", "g", "r", "p">>,
      <<"D", "E", "L", "E", "T", "E", " ", "g", "r", "p", " ">> }

\* the typed lines that are no, n or cancel in some letter case once
\* surrounding whitespace is removed
CancellingLines ==
    { <<"n", "o">>,
      <<"N", "O">>,
      <<"N", "o">>,
      <<"n">>,
      <<"N">>,
      <<"c", "a", "n", "c", "e", "l">>,
      <<"C", "a", "n", "c", "e", "l">>,
      <<" ", "n", "o", " ">> }

\* C4: whatever the remote listing holds (parent-directory segments, no group
\* prefix), every delete candidate and every directory handed to
\* remove_directory resolves to the managed group directory or below it.
C4_CandidatesInsideGroupDirectory ==
    /\ \A j \in 1..Len(to_delete) :
          IsRelativeTo(Resolve(to_delete[j]), ManagedGroupDirectory)
    /\ \A j \in 1..Len(removals) :
          IsRelativeTo(Resolve(removals[j][1]), ManagedGroupDirectory)

\* C4 witness: the listing sync fetched holds "grp/../other/repoX" and "repoB",
\* the other group's checkout is on disk, and candidates were found and one of
\* them removed.
C4_Witness ==
    /\ \E j \in 1..Len(gitlab_repositories) : gitlab_repositories[j] = TraversalPath
    /\ \E j \in 1..Len(gitlab_repositories) : gitlab_repositories[j] = <<"repoB">>
    /\ <<"base", "other", "repoX">> \in fs
    /\ \E j \in 1..Len(removals) : removals[j][2] = "removed"

\* C5 as claimed: every delete candidate and every directory removed lies
\* strictly below the group directory; the group directory itself is neither.
C5_StrictDescendants ==
    /\ \A j \in 1..Len(to_delete) :
          /\ IsRelativeTo(to_delete[j], ManagedGroupDirectory)
          /\ to_delete[j] # ManagedGroupDirectory
    /\ \A j \in 1..Len(removals) :
          /\ IsRelativeTo(removals[j][1], ManagedGroupDirectory)
          /\ removals[j][1] # ManagedGroupDirectory

\* C6 as claimed: the loop proceeds only on the line "DELETE grp" exactly as
\* typed, cancels only on no / n / cancel in some letter case, and asks again
\* on every other line, surrounding whitespace included. (Stated for the
\* ordinary runs.)
C6_ExactLineOnly ==
    OrdinaryRun =>
    /\ Confirmed => typed = <<"D", "E", "L", "E", "T", "E", " ", "g", "r", "p">>
    /\ printed = "cancelled" => typed \in
         { <<"n", "o">>,
           <<"N", "O">>,
           <<"N", "o">>,
           <<"n">>,
           <<"N">>,
           <<"c", "a", "n", "c", "e", "l">>,
           <<"C", "a", "n", "c", "e", "l">> }
    /\ (spc = "prompt" /\ prompts > 0) =>
         /\ typed # <<"D", "E", "L", "E", "T", "E", " ", "g", "r", "p">>
         /\ typed \notin
              { <<"n", "o">>,
           <<"N", "O">>,
           <<"N", "o">>,
           <<"n">>,
           <<"N">>,
           <<"c", "a", "n", "c", "e", "l">>,
           <<"C", "a", "n", "c", "e", "l">> }

\* C6 amended: with leading and trailing whitespace removed from the line, the
\* loop proceeds exactly on "DELETE grp" (case-sensitive), cancels exactly on
\* no / n / cancel in any letter case, and on every other line asks again,
\* changing nothing but the line read and the count of lines read.
C6_DecisionAfterStrip ==
    [][ (spc = "prompt" /\ prompts' = prompts + 1) =>
          /\ typed' \in ConfirmingLines =>
                /\ spc' = "deleting"
                /\ UNCHANGED <<fs, group_dir_exists, to_delete, removals,
                               deleted_count, failed_deletions, printed>>
          /\ typed' \in CancellingLines =>
                /\ spc' = "done"
                /\ printed' = "cancelled"
                /\ UNCHANGED <<fs, group_dir_exists, to_delete, removals,
                               deleted_count, failed_deletions>>
          /\ typed' \notin (ConfirmingLines \cup CancellingLines) =>
                UNCHANGED <<pvars, fs, group_dir_exists, remote, spc, page, results,
                            gitlab_repositories, to_delete, del_idx, deleted_count,
                            failed_deletions, removals, api_error, fs_start, printed>>
      ]_vars

\* C6 witness: after one rejected line, " DELETE grp" was read and the loop
\* went on to the deletions.
C6_Witness ==
    /\ spc = "deleting"
    /\ prompts = 2
    /\ typed = <<" ", "D", "E", "L", "E", "T", "E", " ", "g", "r", "p">>

\* C7 as claimed: nothing is removed before the confirmation, and a cancelled
\* run ends with nothing removed and the disk as sync found it. (Stated for the
\* ordinary runs.)
C7_CancelLeavesNoTrace ==
    OrdinaryRun =>
    /\ removals # <<>> => typed \in ConfirmingLines
    /\ printed = "cancelled" =>
          /\ removals = <<>>
          /\ fs = fs_start

\* C7 amended: nothing is removed before the confirmation, and a cancelled run
\* ends with nothing removed; the checkouts on disk are then those sync found
\* plus those clone_group_repositories cloned before the prompt.
C7_CancelRemovesNothing ==
    /\ removals # <<>> => (Confirmed /\ typed \in ConfirmingLines)
    /\ printed = "cancelled" =>
          /\ removals = <<>>
          /\ deleted_count = 0
          /\ fs_start \subseteq fs
          /\ fs \ fs_start \subseteq { Resolve(<<"base">> \o p) : p \in remote }

\* C7 witness: the operator cancelled on the second line, candidates were on
\* offer, and the clone step had added a checkout before the prompt.
C7_Witness ==
    /\ printed = "cancelled"
    /\ prompts = 2
    /\ to_delete # <<>>
    /\ fs # fs_start

\* C8 as claimed: the summary's count of successful deletions is the number of
\* candidates whose directory is gone, and every candidate whose removal
\* raised a filesystem error is listed among the failures. (Stated for the
\* ordinary runs.)
C8_SummaryMatchesDisk ==
    (SummaryPrinted /\ OrdinaryRun) =>
        /\ deleted_count =
             Cardinality({ j \in 1..Len(to_delete) : to_delete[j] \notin fs })
        /\ Len(failed_deletions) =
             Cardinality({ j \in 1..Len(removals) : removals[j][2] = "os_error" })

\* C9: once the operator has confirmed, remove_directory is called on every
\* candidate exactly once and in list order, whatever the earlier calls did.
C9_EveryCandidateAttemptedInOrder ==
    /\ \A a, b \in 1..Len(to_delete) : a # b => to_delete[a] # to_delete[b]
    /\ spc = "deleting" => RemovedDirectories = SubSeq(to_delete, 1, del_idx - 1)
    /\ SummaryPrinted => RemovedDirectories = to_delete
    /\ ~Confirmed => removals = <<>>

\* C9 witness: the summary is printed after two candidates, the first of which
\* rmtree failed on.
C9_Witness ==
    /\ SummaryPrinted
    /\ Len(to_delete) >= 2
    /\ removals[1][2] = "os_error"
    /\ removals[2][2] = "removed"

\* C10 as claimed: after a GitLabAPIError in the listing fetch the run is
\* aborted: no candidate is computed, nothing is offered for confirmation and
\* nothing is removed.
C10_FailedListingAbortsSync ==
    api_error =>
        /\ to_delete = <<>>
        /\ spc \notin {"prompt", "deleting"}
        /\ removals = <<>>

\* the absolute path a project of the listing stands for: "grp/" removed from
\* the front when it is there, the rest resolved against /base/grp
MappedPath(p) ==
    CASE p = <<"grp", "repoA">> -> <<"base", "grp", "repoA">>
      [] p = <<"grp", "repoB">> -> <<"base", "grp", "repoB">>
      [] p = <<"repoB">> -> <<"base", "grp", "repoB">>
      [] p = <<"grp", "..", "other", "repoX">> -> <<"base", "other", "repoX">>

\* the checkouts find_local_repos discovers: those at or below /base/grp
DiscoveredCheckouts ==
    { d \in fs : Len(d) >= 2 /\ d[1] = "base" /\ d[2] = "grp" }

\* the candidates are computed and nothing has been removed since
CandidatesComputed ==
    /\ removals = <<>>
    /\ \/ spc \in {"prompt", "deleting"}
       \/ spc = "done" /\ printed \in {"nothing_to_delete", "cancelled"}

\* C11: the delete candidates are exactly the discovered local checkouts that
\* are not the absolute path of a project of the listing sync obtained, each
\* listed once; a local checkout that is in that listing is never a candidate.
C11_CandidatesAreLocalMinusRemote ==
    CandidatesComputed =>
        /\ { to_delete[j] : j \in 1..Len(to_delete) } =
              DiscoveredCheckouts \
                  { MappedPath(gitlab_repositories[j]) : j \in 1..Len(gitlab_repositories) }
        /\ Len(to_delete) = Cardinality({ to_delete[j] : j \in 1..Len(to_delete) })

\* C11 witness: the listing is {grp/repoA}, the local checkouts are repoA and
\* repoB of the group, and the only candidate is /base/grp/repoB.
C11_Witness ==
    /\ spc = "prompt"
    /\ gitlab_repositories = << <<"grp", "repoA">> >>
    /\ DiscoveredCheckouts = { <<"base", "grp", "repoA">>, <<"base", "grp", "repoB">> }
    /\ to_delete = << <<"base", "grp", "repoB">> >>

\* sync is running for the second time
SecondRun == Len(previous_run) = 1

\* the first run left no candidate behind: it found none, or the operator
\* confirmed and rmtree succeeded on every candidate
FirstRunRemovedEverything ==
    /\ SecondRun
    /\ previous_run[1].printed \in {"nothing_to_delete", "summary"}
    /\ previous_run[1].no_removal_failed

\* C12 as claimed: the second run of sync computes no delete candidate. (Stated
\* for the second runs that obtain the listing and whose group directory is not
\* itself a checkout.)
C12_SecondRunFindsNothing ==
    (SecondRun /\ OrdinaryRun) => to_delete = <<>>

\* C12 amended: in the second run, when the first run found no candidate or was
\* confirmed and removed every candidate, and the second run obtains the
\* listing, there is no candidate and sync reports that there is nothing to
\* delete; when the second run's listing fetch fails, every discovered checkout
\* is a candidate.
C12_SecondRunAfterCompletedFirstRun ==
    /\ (FirstRunRemovedEverything /\ ~api_error) =>
          /\ to_delete = <<>>
          /\ spc \notin {"prompt", "deleting"}
          /\ spc = "done" => printed = "nothing_to_delete"
    /\ (SecondRun /\ api_error /\ CandidatesComputed) =>
          { to_delete[j] : j \in 1..Len(to_delete) } = DiscoveredCheckouts

\* C12 witness: the first run was confirmed and removed its candidates, and the
\* second run, its listing obtained, has ended with nothing to delete.
C12_Witness ==
    /\ SecondRun
    /\ previous_run[1].printed = "summary"
    /\ previous_run[1].no_removal_failed
    /\ ~api_error
    /\ spc = "done"
    /\ printed = "nothing_to_delete"

\* C22: with no delete candidate, sync reports that there is nothing to delete
\* and returns: no line is read from the operator and nothing is removed, and
\* the checkouts on disk are those the clone step left. The operator is asked,
\* and directories are removed, only when there is a candidate.
C22_NothingToDeleteSkipsPrompt ==
    /\ (spc = "done" /\ to_delete = <<>>) =>
          /\ printed = "nothing_to_delete"
          /\ prompts = 0
          /\ typed = <<>>
          /\ removals = <<>>
          /\ deleted_count = 0
          /\ fs_start \subseteq fs
    /\ (spc \in {"prompt", "deleting"} \/ prompts > 0 \/ removals # <<>>) =>
          to_delete # <<>>
    /\ printed = "nothing_to_delete" => to_delete = <<>>

\* C22 witness: the listing was obtained, every discovered checkout is in it,
\* and sync has ended reporting that there is nothing to delete.
C22_Witness ==
    /\ spc = "done"
    /\ printed = "nothing_to_delete"
    /\ ~api_error
    /\ Cardinality(DiscoveredCheckouts) = 2
    /\ prompts = 0

\* d is /base/grp or a path below it
InsideGroupDirectory(d) == Len(d) >= 2 /\ d[1] = "base" /\ d[2] = "grp"

\* the set _map_gitlab_group_repos_to_absolute_path produces from the listing
\* sync obtained
MappedRemotePaths ==
    map_gitlab_group_repos_to_absolute_path(gitlab_repositories)

-----------------------------------------------------------------------------
(* Properties of main, checked under SpecMain *)

\* the process has terminated
Exited == mpc = "exited"

\* C13 as claimed: with the access token unset the process ends with a
\* non-zero status, and nothing was created, cloned, removed or requested
\* before it ended. (Stated for the runs with glab installed, a group id given
\* and no failure creating the base directory, whatever the sync / clone /
\* cleanup switches.)
C13_TokenCheckedBeforeAnyWork ==
    (Exited /\ ~args.token /\ args.glab /\ args.group_id
            /\ raised # "EnvironmentError") =>
        /\ exit_status # 0
        /\ effects = <<>>

\* C14 as claimed: the exit status is 0 when main completed normally, and
\* non-zero when glab is missing, when the token is needed and unset, and when
\* the base directory could not be created.
C14_ExitStatusTellsFailure ==
    Exited =>
        /\ raised = None => exit_status = 0
        /\ ~args.glab => exit_status # 0
        /\ (args.glab /\ args.group_id /\ ~args.token) => exit_status # 0
        /\ raised = "EnvironmentError" => exit_status # 0

====
